---- MODULE Spec2Model ----
(***************************************************************************)
(* The intent broker of the salon checkout demo (server.js, both the       *)
(* platform variant and the connected-account variant, whose three POST    *)
(* handlers are line for line the same) talking to the payment processor.  *)
(*                                                                         *)
(* Every handler is an async function with two awaits, so one request is   *)
(* handled in three steps: up to the first await (customers.create is      *)
(* called), from the first await to the second (the intent creation is     *)
(* called) and from the second await to the response.  Steps of different  *)
(* requests interleave freely on the event loop.                           *)
(***************************************************************************)
EXTENDS Integers, Sequences, FiniteSets, TLC

\* Number of requests handled in one behaviour (all of them may be in flight
\* at the same time).
MaxRequests == 2

Requests == 1..MaxRequests

VARIABLES
    pc,               \* pc[r]: where the handler of request r stands
    req,              \* req[r]: the endpoint and the parsed JSON body
    customer,         \* customer[r]: the handler's local `customer`
    calls,            \* calls[r]: the processor calls request r has issued
    thrown,           \* thrown[r]: the errors the processor threw at r
    responses,        \* responses[r]: what the handler wrote to `res`
    stripeCustomers,  \* stripeCustomers[r]: the customers the processor created on r's calls
    stripeIntents,    \* stripeIntents[r]: the intents the processor created on r's calls
    consoleLog,       \* the lines the server process has written with console.log
    globals,          \* the module-level bindings of server.js
    pages,            \* the answers the server has given to GET requests, in order
    stripe,           \* client.js: let stripe (undefined until initialize() ran)
    elements,         \* client.js: let elements
    currentMode,      \* client.js: let currentMode
    dom,              \* the document: the controls, the widget container, the banner
    redirectStatus,   \* redirect_status of the document's URL
    fetches,          \* the calls of fetch() made so far, with what became of each
    confirms,         \* the calls of stripe.confirmPayment/confirmSetup made so far
    timers            \* how many setTimeout callbacks of showMessage have not run yet

\* What outlives a request in the server process.
processVars == <<consoleLog, globals>>

serverVars == <<pc, req, customer, calls, thrown, responses, stripeCustomers,
                stripeIntents, processVars>>

pageVars == <<pages>>

clientVars == <<stripe, elements, currentMode, dom, redirectStatus, fetches,
                confirms, timers>>

vars == <<serverVars, pageVars, clientVars>>

----------------------------------------------------------------------------
(* JavaScript values.  A value is a record of its type tag, its text and   *)
(* its number: a string is its text followed, when n > 0, by the decimal   *)
(* n (the processor's ids: "cus_" 3 is the string cus_3).                   *)

Undefined == [t |-> "undefined", s |-> "", n |-> 0]
Str(x) == [t |-> "string", s |-> x, n |-> 0]
Num(k) == [t |-> "number", s |-> "", n |-> k]
Bool(b) == [t |-> "boolean", s |-> "", n |-> IF b THEN 1 ELSE 0]
Id(prefix, k) == [t |-> "string", s |-> prefix, n |-> k]

\* ToBoolean, as `if (x)` and `x || y` apply it.
Truthy(v) ==
    CASE v.t = "undefined" -> FALSE
      [] v.t = "boolean" -> v.n = 1
      [] v.t = "number" -> v.n # 0
      [] v.t = "string" -> ~(v.s = "" /\ v.n = 0)

\* a || b
Or(a, b) == IF Truthy(a) THEN a ELSE b

NonEmptyString(v) == v.t = "string" /\ ~(v.s = "" /\ v.n = 0)

----------------------------------------------------------------------------
(* The requests a caller can send.                                         *)

Endpoints == {"/create-payment-intent", "/create-setup-intent",
              "/create-customer-setup-intent"}

\* amount: the positive integer the page sends, and the values a caller can
\* send in its place: none, zero, a negative number, a non-numeric string.
ValidAmount == Num(500)
InvalidAmounts == {Undefined, Num(0), Num(-1), Str("abc")}
\* currency: absent, empty, present.
CurrencyValues == {Undefined, Str(""), Str("usd")}
\* saveCard: absent, false, true.
SaveCardValues == {Undefined, Bool(FALSE), Bool(TRUE)}

\* req.body after express.json(): a key the caller left out reads undefined.
EmptyBody == [amount |-> Undefined, currency |-> Undefined, saveCard |-> Undefined]

\* The bodies sent to /create-payment-intent: with the valid amount, each
\* currency with saveCard true and each saveCard with the currency present;
\* and {amount: x} for each invalid x.
PaymentBodies ==
    {[amount |-> ValidAmount, currency |-> c, saveCard |-> Bool(TRUE)] : c \in CurrencyValues}
    \cup {[amount |-> ValidAmount, currency |-> Str("usd"), saveCard |-> v] : v \in SaveCardValues}
    \cup {[EmptyBody EXCEPT !.amount = a] : a \in InvalidAmounts}

\* The bodies sent to the two setup endpoints: {} as the page sends it, and
\* the body of a payment.
SetupBodies ==
    {EmptyBody, [amount |-> ValidAmount, currency |-> Str("usd"), saveCard |-> Bool(TRUE)]}

Bodies(endpoint) ==
    IF endpoint = "/create-payment-intent" THEN PaymentBodies ELSE SetupBodies

\* The messages of the errors the processor client throws: customers.create()
\* takes no parameters and fails on the connection only, an intent creation
\* fails on the connection or on its parameters.
CustomerMessages == {"An error occurred with our connection to Stripe."}
Messages == {"Invalid integer: abc"} \cup CustomerMessages

\* process.env, as .env sets it; PORT is left to its default.
Env == [STRIPE_SECRET_KEY |-> Str("sk_test_"),
        STRIPE_PUBLISHABLE_KEY |-> Str("pk_test_"),
        STRIPE_CONNECTED_ACCOUNT_ID |-> Str("acct_"),
        PORT |-> Undefined]

\* const PORT = process.env.PORT || 4242
DefaultPort == 4242
PORT == Or(Env.PORT, Num(DefaultPort))

----------------------------------------------------------------------------
(* The processor.                                                          *)

\* The serial of the k-th object the processor makes on the calls of request
\* r: a number no other object of that kind carries.
Fresh(r, k) == (k - 1) * MaxRequests + r

\* stripe.customers.create(): a new customer object with a fresh id.
StripeCustomer(k) == [id |-> Id("cus_", k)]

\* stripe.paymentIntents.create(params) / stripe.setupIntents.create(params).
StripeIntent(api, k, params) ==
    IF api = "paymentIntents.create"
    THEN [object |-> "payment_intent", id |-> Id("pi_", k),
          client_secret |-> Id("pi_secret_", k), params |-> params]
    ELSE [object |-> "setup_intent", id |-> Id("seti_", k),
          client_secret |-> Id("seti_secret_", k), params |-> params]

----------------------------------------------------------------------------
(* The handlers' pieces.                                                   *)

StatusOk == 200
StatusBadRequest == 400

\* Faulty variant: setup_future_usage is set whatever saveCard is.
PaymentIntentOptions_ForceSave(body, cust) ==
    [amount |-> body.amount,
     currency |-> Or(body.currency, Str("gbp")),
     customer |-> cust.id,
     payment_method_types |-> <<"card">>,
     setup_future_usage |-> "off_session"]

\* Faulty variant: the request's currency is ignored.
PaymentIntentOptions_FixedCurrency(body, cust) ==
    LET options == [amount |-> body.amount,
                    currency |-> Str("gbp"),
                    customer |-> cust.id,
                    payment_method_types |-> <<"card">>]
    IN  IF Truthy(body.saveCard)
        THEN options @@ ("setup_future_usage" :> "off_session")
        ELSE options

\* const options = {...}; if (saveCard) options.setup_future_usage = ...
PaymentIntentOptions(body, cust) ==
    LET options == [amount |-> body.amount,
                    currency |-> Or(body.currency, Str("gbp")),
                    customer |-> cust.id,
                    payment_method_types |-> <<"card">>]
    IN  IF Truthy(body.saveCard)
        THEN options @@ ("setup_future_usage" :> "off_session")
        ELSE options

\* /create-setup-intent: the argument of stripe.setupIntents.create
SetupIntentOptions(cust) ==
    [customer |-> cust.id, payment_method_types |-> <<"card">>]

\* Faulty variant: the save-card endpoint asks for off-session usage.
CustomerSetupIntentOptions_OffSession(cust) ==
    [customer |-> cust.id, payment_method_types |-> <<"card">>, usage |-> "off_session"]

\* /create-customer-setup-intent: the argument of stripe.setupIntents.create
CustomerSetupIntentOptions(cust) ==
    [customer |-> cust.id, payment_method_types |-> <<"card">>]

\* Faulty variant: a setup endpoint charges when the body names an amount.
IntentCall_ChargeIfAmount(endpoint, body, cust) ==
    IF endpoint = "/create-payment-intent" \/ Truthy(body.amount)
    THEN [api |-> "paymentIntents.create", args |-> PaymentIntentOptions(body, cust)]
    ELSE [api |-> "setupIntents.create", args |-> SetupIntentOptions(cust)]

\* The intent-creation call of each handler.
IntentCall(endpoint, body, cust) ==
    CASE endpoint = "/create-payment-intent" ->
            [api |-> "paymentIntents.create", args |-> PaymentIntentOptions(body, cust)]
      [] endpoint = "/create-setup-intent" ->
            [api |-> "setupIntents.create", args |-> SetupIntentOptions(cust)]
      [] endpoint = "/create-customer-setup-intent" ->
            [api |-> "setupIntents.create", args |-> CustomerSetupIntentOptions(cust)]

\* Faulty variant: the intent's id is sent in place of its client secret.
PaymentSuccess_IntentId(intent, cust) ==
    [status |-> StatusOk,
     body |-> [clientSecret |-> intent.id, customerId |-> cust.id]]

\* res.send({clientSecret: paymentIntent.client_secret, customerId: customer.id})
PaymentSuccess(intent, cust) ==
    [status |-> StatusOk,
     body |-> [clientSecret |-> intent.client_secret, customerId |-> cust.id]]

\* res.send({clientSecret: setupIntent.client_secret, customerId: customer.id})
SetupSuccess(intent, cust) ==
    [status |-> StatusOk,
     body |-> [clientSecret |-> intent.client_secret, customerId |-> cust.id]]

CustomerSetupSuccess(intent, cust) ==
    [status |-> StatusOk,
     body |-> [clientSecret |-> intent.client_secret, customerId |-> cust.id]]

SuccessResponse(endpoint, intent, cust) ==
    CASE endpoint = "/create-payment-intent" -> PaymentSuccess(intent, cust)
      [] endpoint = "/create-setup-intent" -> SetupSuccess(intent, cust)
      [] endpoint = "/create-customer-setup-intent" -> CustomerSetupSuccess(intent, cust)

\* Faulty variant: the catch block answers with a fixed text.
PaymentError_Generic(message) ==
    [status |-> StatusBadRequest, body |-> [error |-> [message |-> "Payment failed"]]]

\* catch (e) { res.status(400).send({error: {message: e.message}}) }
PaymentError(message) ==
    [status |-> StatusBadRequest, body |-> [error |-> [message |-> message]]]

SetupError(message) ==
    [status |-> StatusBadRequest, body |-> [error |-> [message |-> message]]]

CustomerSetupError(message) ==
    [status |-> StatusBadRequest, body |-> [error |-> [message |-> message]]]

ErrorResponse(endpoint, message) ==
    CASE endpoint = "/create-payment-intent" -> PaymentError(message)
      [] endpoint = "/create-setup-intent" -> SetupError(message)
      [] endpoint = "/create-customer-setup-intent" -> CustomerSetupError(message)

----------------------------------------------------------------------------
(* The state machine.                                                      *)

NoRequest == [endpoint |-> "", body |-> EmptyBody]

\* The document as the page serves it: the first radio (pay_now) checked, the
\* save-card box shown and unticked, the banner, the spinner and the success
\* screen hidden, nothing mounted.
InitialDom ==
    [radio |-> "pay_now", checkbox |-> FALSE, saveCardHidden |-> FALSE,
     buttonText |-> "", container |-> <<>>,
     messageHidden |-> TRUE, messageText |-> <<>>,
     submitDisabled |-> FALSE, spinnerHidden |-> TRUE, buttonTextHidden |-> FALSE,
     mainHidden |-> FALSE, successHidden |-> TRUE]

\* console.log(`Node server listening on port ${PORT}!`): the pieces of the line.
ListeningLine == <<Str("Node server listening on port "), PORT, Str("!")>>

Init ==
    /\ pc = [r \in Requests |-> "idle"]
    /\ req = [r \in Requests |-> NoRequest]
    /\ customer = [r \in Requests |-> Undefined]
    /\ calls = [r \in Requests |-> <<>>]
    /\ thrown = [r \in Requests |-> <<>>]
    /\ responses = [r \in Requests |-> <<>>]
    /\ stripeCustomers = [r \in Requests |-> <<>>]
    /\ stripeIntents = [r \in Requests |-> <<>>]
    /\ consoleLog = <<ListeningLine>>
    /\ globals = [stripe |-> [apiKey |-> Env.STRIPE_SECRET_KEY,
                              stripeAccount |-> Env.STRIPE_CONNECTED_ACCOUNT_ID],
                  PORT |-> PORT]
    /\ pages = <<>>
    /\ stripe = Undefined
    /\ elements = Undefined
    /\ currentMode = "pay_now"
    /\ dom = InitialDom
    /\ redirectStatus = Undefined
    /\ fetches = <<>>
    /\ confirms = <<>>
    /\ timers = 0

\* Faulty variant: the two processor calls are started together.
Receive_Parallel(r, endpoint, body) ==
    /\ pc[r] = "idle"
    /\ \A q \in Requests : q < r => pc[q] # "idle"
    /\ req' = [req EXCEPT ![r] = [endpoint |-> endpoint, body |-> body]]
    /\ calls' = [calls EXCEPT ![r] =
                    <<[api |-> "customers.create", args |-> <<>>],
                      IntentCall(endpoint, body, [id |-> Undefined])>>]
    /\ pc' = [pc EXCEPT ![r] = "customer"]
    /\ UNCHANGED <<customer, thrown, responses, stripeCustomers, stripeIntents>>
    /\ UNCHANGED <<processVars, pageVars, clientVars>>

\* Faulty variant: the amount is validated before the processor is called.
Receive_Validated(r, endpoint, body) ==
    /\ pc[r] = "idle"
    /\ \A q \in Requests : q < r => pc[q] # "idle"
    /\ req' = [req EXCEPT ![r] = [endpoint |-> endpoint, body |-> body]]
    /\ IF endpoint = "/create-payment-intent" /\ ~(body.amount.t = "number" /\ body.amount.n > 0)
       THEN /\ responses' = [responses EXCEPT ![r] =
                                Append(@, ErrorResponse(endpoint, "Invalid amount"))]
            /\ pc' = [pc EXCEPT ![r] = "done"]
            /\ UNCHANGED calls
       ELSE /\ calls' = [calls EXCEPT ![r] =
                            Append(@, [api |-> "customers.create", args |-> <<>>])]
            /\ pc' = [pc EXCEPT ![r] = "customer"]
            /\ UNCHANGED responses
    /\ UNCHANGED <<customer, thrown, stripeCustomers, stripeIntents>>
    /\ UNCHANGED <<processVars, pageVars, clientVars>>

\* A request arrives and its handler runs up to `await stripe.customers.create()`.
\* Requests take the slots in order (the slots only name the connections).
Receive(r, endpoint, body) ==
    /\ pc[r] = "idle"
    /\ \A q \in Requests : q < r => pc[q] # "idle"
    /\ req' = [req EXCEPT ![r] = [endpoint |-> endpoint, body |-> body]]
    /\ calls' = [calls EXCEPT ![r] = Append(@, [api |-> "customers.create", args |-> <<>>])]
    /\ pc' = [pc EXCEPT ![r] = "customer"]
    /\ UNCHANGED <<customer, thrown, responses, stripeCustomers, stripeIntents>>
    /\ UNCHANGED <<processVars, pageVars, clientVars>>

\* Faulty variant: "create or get": a customer some request already has is used
\* again instead of a new one.
CustomerCreated_Reuse(r) ==
    /\ pc[r] = "customer"
    /\ LET known == {q \in Requests : customer[q] # Undefined}
           cust == IF known = {}
                   THEN StripeCustomer(Fresh(r, Len(stripeCustomers[r]) + 1))
                   ELSE customer[CHOOSE q \in known : TRUE]
       IN  /\ stripeCustomers' = IF known = {}
                                 THEN [stripeCustomers EXCEPT ![r] = Append(@, cust)]
                                 ELSE stripeCustomers
           /\ customer' = [customer EXCEPT ![r] = cust]
           /\ calls' = [calls EXCEPT ![r] =
                            Append(@, IntentCall(req[r].endpoint, req[r].body, cust))]
    /\ pc' = [pc EXCEPT ![r] = "intent"]
    /\ UNCHANGED <<req, thrown, responses, stripeIntents>>
    /\ UNCHANGED <<processVars, pageVars, clientVars>>

\* customers.create resolves; the handler builds the options and runs up to
\* the await of the intent creation.
CustomerCreated(r) ==
    /\ pc[r] = "customer"
    /\ LET cust == StripeCustomer(Fresh(r, Len(stripeCustomers[r]) + 1))
       IN  /\ stripeCustomers' = [stripeCustomers EXCEPT ![r] = Append(@, cust)]
           /\ customer' = [customer EXCEPT ![r] = cust]
           /\ calls' = [calls EXCEPT ![r] =
                            Append(@, IntentCall(req[r].endpoint, req[r].body, cust))]
    /\ pc' = [pc EXCEPT ![r] = "intent"]
    /\ UNCHANGED <<req, thrown, responses, stripeIntents>>
    /\ UNCHANGED <<processVars, pageVars, clientVars>>

\* customers.create rejects; the catch block answers.
CustomerFailed(r, message) ==
    /\ pc[r] = "customer"
    /\ thrown' = [thrown EXCEPT ![r] = Append(@, message)]
    /\ responses' = [responses EXCEPT ![r] = Append(@, ErrorResponse(req[r].endpoint, message))]
    /\ pc' = [pc EXCEPT ![r] = "done"]
    /\ UNCHANGED <<req, customer, calls, stripeCustomers, stripeIntents>>
    /\ UNCHANGED <<processVars, pageVars, clientVars>>

\* Faulty variant: the handler logs the intent it got.
IntentCreated_Logged(r) ==
    /\ pc[r] = "intent"
    /\ LET call == calls[r][Len(calls[r])]
           intent == StripeIntent(call.api, Fresh(r, Len(stripeIntents[r]) + 1), call.args)
       IN  /\ stripeIntents' = [stripeIntents EXCEPT ![r] = Append(@, intent)]
           /\ responses' = [responses EXCEPT ![r] =
                                Append(@, SuccessResponse(req[r].endpoint, intent, customer[r]))]
           /\ consoleLog' = Append(consoleLog, <<Str("created "), intent.id, intent.client_secret>>)
    /\ pc' = [pc EXCEPT ![r] = "done"]
    /\ UNCHANGED <<req, customer, calls, thrown, stripeCustomers, globals>>
    /\ UNCHANGED <<pageVars, clientVars>>

\* The intent creation resolves; the handler sends the success body.
IntentCreated(r) ==
    /\ pc[r] = "intent"
    /\ LET call == calls[r][Len(calls[r])]
           intent == StripeIntent(call.api, Fresh(r, Len(stripeIntents[r]) + 1), call.args)
       IN  /\ stripeIntents' = [stripeIntents EXCEPT ![r] = Append(@, intent)]
           /\ responses' = [responses EXCEPT ![r] =
                                Append(@, SuccessResponse(req[r].endpoint, intent, customer[r]))]
    /\ pc' = [pc EXCEPT ![r] = "done"]
    /\ UNCHANGED <<req, customer, calls, thrown, stripeCustomers>>
    /\ UNCHANGED <<processVars, pageVars, clientVars>>

\* Faulty variant: a failed intent creation is tried again.
IntentFailed_Retry(r, message) ==
    /\ pc[r] = "intent"
    /\ thrown' = [thrown EXCEPT ![r] = Append(@, message)]
    /\ calls' = [calls EXCEPT ![r] = Append(@, calls[r][Len(calls[r])])]
    /\ UNCHANGED <<pc, req, customer, responses, stripeCustomers, stripeIntents>>
    /\ UNCHANGED <<processVars, pageVars, clientVars>>

\* Faulty variant: the catch block deletes the customer it created.
IntentFailed_Cleanup(r, message) ==
    /\ pc[r] = "intent"
    /\ thrown' = [thrown EXCEPT ![r] = Append(@, message)]
    /\ calls' = [calls EXCEPT ![r] = Append(@, [api |-> "customers.del", args |-> customer[r].id])]
    /\ stripeCustomers' = [stripeCustomers EXCEPT ![r] = <<>>]
    /\ responses' = [responses EXCEPT ![r] = Append(@, ErrorResponse(req[r].endpoint, message))]
    /\ pc' = [pc EXCEPT ![r] = "done"]
    /\ UNCHANGED <<req, customer, stripeIntents>>
    /\ UNCHANGED <<processVars, pageVars, clientVars>>

\* Faulty variant: the catch block swallows the error and sends nothing.
IntentFailed_Silent(r, message) ==
    /\ pc[r] = "intent"
    /\ thrown' = [thrown EXCEPT ![r] = Append(@, message)]
    /\ pc' = [pc EXCEPT ![r] = "done"]
    /\ UNCHANGED <<req, customer, calls, responses, stripeCustomers, stripeIntents>>
    /\ UNCHANGED <<processVars, pageVars, clientVars>>

\* The intent creation rejects; the catch block answers.
IntentFailed(r, message) ==
    /\ pc[r] = "intent"
    /\ thrown' = [thrown EXCEPT ![r] = Append(@, message)]
    /\ responses' = [responses EXCEPT ![r] = Append(@, ErrorResponse(req[r].endpoint, message))]
    /\ pc' = [pc EXCEPT ![r] = "done"]
    /\ UNCHANGED <<req, customer, calls, stripeCustomers, stripeIntents>>
    /\ UNCHANGED <<processVars, pageVars, clientVars>>

Next ==
    \/ \E r \in Requests, e \in Endpoints : \E b \in Bodies(e) : Receive(r, e, b)
    \/ \E r \in Requests : CustomerCreated(r)
    \/ \E r \in Requests, m \in CustomerMessages : CustomerFailed(r, m)
    \/ \E r \in Requests : IntentCreated(r)
    \/ \E r \in Requests, m \in Messages : IntentFailed(r, m)

Spec == Init /\ [][Next]_vars

----------------------------------------------------------------------------
(* The GET side of the server: the static middleware, then the one route.   *)

MaxGets == 4

\* The files of public/ that express.static serves.
PublicFiles == {"/client.js", "/style.css"}

GetPaths == {"/", "/config"} \cup PublicFiles

StatusNotFound == 404

\* app.use(express.static('public')): a file of public/ is sent as it is.
StaticFile(path) == [path |-> path, status |-> StatusOk, file |-> path]

\* app.get('/'): res.render('index', {publishableKey, connectedAccountId}).
RenderIndex(path) ==
    [path |-> path, status |-> StatusOk, view |-> "index",
     locals |-> [publishableKey |-> Env.STRIPE_PUBLISHABLE_KEY,
                 connectedAccountId |-> Env.STRIPE_CONNECTED_ACCOUNT_ID]]

\* No middleware and no route took the request: the framework's 404.
NotFound(path) == [path |-> path, status |-> StatusNotFound]

\* A GET request runs down the middleware stack in registration order.
Get(path) ==
    /\ Len(pages) < MaxGets
    /\ pages' = Append(pages,
                       IF path \in PublicFiles THEN StaticFile(path)
                       ELSE IF path = "/" THEN RenderIndex(path)
                       ELSE NotFound(path))
    /\ UNCHANGED <<serverVars, clientVars>>

PageNext == \E path \in GetPaths : Get(path)

PageSpec == Init /\ [][PageNext]_vars

----------------------------------------------------------------------------
(* The checkout page: public/client.js in one browser tab.                 *)

MaxFetches == 2
MaxSubmits == 1

\* The values of the paymentMode radios.
Modes == {"pay_now", "setup_future", "save_card"}

\* What a rejected fetch() carries, and what a failed confirm call reports.
FetchErrors == {"Failed to fetch"}
ConfirmErrors == {"Your card was declined."}

\* textContent is kept as the pieces it was put together from; '' is <<>>.
Text(string) == <<string>>
Concat(a, b) == a \o b

\* const { clientSecret, error } = ...: a key the object lacks reads undefined.
Field(object, key) == IF key \in DOMAIN object THEN object[key] ELSE Undefined

\* showMessage(messageText), on the document; its timeout is set by the caller.
ShowMessage(d, messageText) ==
    [d EXCEPT !.messageHidden = FALSE, !.messageText = messageText]

\* The callback showMessage hands to setTimeout.
HideMessage(d) == [d EXCEPT !.messageHidden = TRUE, !.messageText = <<>>]

\* Faulty variant: the container is left as it is before the mount.
ClearContainer_Kept(container) == container

\* container.innerHTML = ''
ClearContainer(container) == <<>>

\* elements.create('payment', paymentElementOptions), of the elements of a secret
PaymentElement(clientSecret) == [type |-> "payment", clientSecret |-> clientSecret]

\* paymentElement.mount('#payment-element')
Mount(container, element) == Append(container, element)

\* setLoading(isLoading)
SetLoading(d, isLoading) ==
    [d EXCEPT !.submitDisabled = isLoading,
              !.spinnerHidden = ~isLoading,
              !.buttonTextHidden = isLoading]

\* Faulty variant: the mode is read from a radio that has no value.
DetectMode_NoValue(d, mode) == "on"

\* updatePaymentMode, part A: the value of the checked radio, if there is one.
DetectMode(d, mode) == IF d.radio \in Modes THEN d.radio ELSE mode

\* Faulty variant: every mode asks for a payment intent.
LoadCall_AlwaysPayment(mode, isChecked) ==
    [endpoint |-> "/create-payment-intent",
     body |-> [amount |-> ValidAmount, currency |-> Str("gbp"),
               saveCard |-> Bool(isChecked)]]

\* updatePaymentMode, part B: the call of loadPaymentElement the mode leads to.
LoadCall(mode, isChecked) ==
    IF mode = "pay_now"
    THEN [endpoint |-> "/create-payment-intent",
          body |-> [amount |-> ValidAmount, currency |-> Str("gbp"),
                    saveCard |-> Bool(isChecked)]]
    ELSE IF mode = "save_card"
    THEN [endpoint |-> "/create-customer-setup-intent", body |-> EmptyBody]
    ELSE [endpoint |-> "/create-setup-intent", body |-> EmptyBody]

\* Faulty variant: the save-card box is left as it is in the setup modes.
ModeControls_BoxShown(d, mode) ==
    IF mode = "pay_now"
    THEN [d EXCEPT !.saveCardHidden = FALSE, !.buttonText = "Pay £5.00 Now"]
    ELSE IF mode = "save_card"
    THEN [d EXCEPT !.buttonText = "Save Card on File"]
    ELSE [d EXCEPT !.buttonText = "Reserve Spot (Pay £0.00)"]

\* updatePaymentMode, part B: the save-card box and the button of the mode.
ModeControls(d, mode) ==
    IF mode = "pay_now"
    THEN [d EXCEPT !.saveCardHidden = FALSE, !.buttonText = "Pay £5.00 Now"]
    ELSE IF mode = "save_card"
    THEN [d EXCEPT !.saveCardHidden = TRUE, !.buttonText = "Save Card on File"]
    ELSE [d EXCEPT !.saveCardHidden = TRUE, !.buttonText = "Reserve Spot (Pay £0.00)"]

\* updatePaymentMode() up to the await of fetch(): run on the document d, it
\* sets currentMode, the controls, and leaves one more fetch pending. A fetch
\* is kept with the body it was answered with or the error it was rejected
\* with (response) and with the argument stripe.elements() was called with
\* for it (handed), if it was.
UpdatePaymentMode(d, trigger) ==
    LET mode == DetectMode(d, currentMode)
        call == LoadCall(mode, d.checkbox)
    IN  /\ currentMode' = mode
        /\ dom' = ModeControls(d, mode)
        /\ fetches' = Append(fetches, [endpoint |-> call.endpoint, body |-> call.body,
                                       trigger |-> trigger, mode |-> mode,
                                       state |-> "pending", response |-> Undefined,
                                       handed |-> Undefined])

\* checkUrlForSuccess()
CheckUrlForSuccess(d) ==
    IF redirectStatus = Str("succeeded")
    THEN [d EXCEPT !.mainHidden = TRUE, !.successHidden = FALSE]
    ELSE d

\* The script runs in a fresh document: initialize().
Load ==
    /\ stripe = Undefined
    /\ Len(fetches) < MaxFetches
    /\ stripe' = [publishableKey |-> Env.STRIPE_PUBLISHABLE_KEY,
                  stripeAccount |-> Env.STRIPE_CONNECTED_ACCOUNT_ID]
    /\ UpdatePaymentMode(CheckUrlForSuccess(dom), "load")
    /\ UNCHANGED <<elements, redirectStatus, confirms, timers>>
    /\ UNCHANGED <<serverVars, pageVars>>

\* The controls can be used once the script ran and while the form is shown.
Usable == stripe # Undefined /\ ~dom.mainHidden

\* The user picks another radio: its change event calls updatePaymentMode().
SelectMode(mode) ==
    /\ Usable
    /\ mode # dom.radio
    /\ Len(fetches) < MaxFetches
    /\ UpdatePaymentMode([dom EXCEPT !.radio = mode], "radio")
    /\ UNCHANGED <<stripe, elements, redirectStatus, confirms, timers>>
    /\ UNCHANGED <<serverVars, pageVars>>

\* The user goes for the save-card checkbox: in a hidden box it cannot be
\* reached and nothing happens, else it flips and its change event calls
\* updatePaymentMode().
ToggleSaveCard ==
    /\ Usable
    /\ IF dom.saveCardHidden
       THEN UNCHANGED <<currentMode, dom, fetches>>
       ELSE /\ Len(fetches) < MaxFetches
            /\ UpdatePaymentMode([dom EXCEPT !.checkbox = ~dom.checkbox], "checkbox")
    /\ UNCHANGED <<stripe, elements, redirectStatus, confirms, timers>>
    /\ UNCHANGED <<serverVars, pageVars>>

\* What the broker answers to the i-th fetch: the success body of a handler
\* that made its customer and its intent, or the error body of one that threw.
BrokerSuccess(i) ==
    LET cust == StripeCustomer(i)
        call == IntentCall(fetches[i].endpoint, fetches[i].body, cust)
    IN  SuccessResponse(fetches[i].endpoint, StripeIntent(call.api, i, call.args), cust)

BrokerResponses(i) ==
    {BrokerSuccess(i)} \cup
    {ErrorResponse(fetches[i].endpoint, m) : m \in CustomerMessages}

\* Faulty variant: the answer to a fetch that is not the page's last is dropped.
FetchResolved_IgnoreStale(i, response) ==
    /\ fetches[i].state = "pending"
    /\ LET clientSecret == Field(response.body, "clientSecret")
           error == Field(response.body, "error")
       IN  IF i # Len(fetches)
           THEN /\ fetches' = [fetches EXCEPT ![i].state = "resolved",
                                              ![i].response = response.body]
                /\ UNCHANGED <<elements, dom, timers>>
           ELSE IF error # Undefined
           THEN /\ dom' = ShowMessage(dom, Text(error.message))
                /\ timers' = timers + 1
                /\ fetches' = [fetches EXCEPT ![i].state = "resolved",
                                              ![i].response = response.body]
                /\ UNCHANGED elements
           ELSE /\ elements' = [clientSecret |-> clientSecret]
                /\ dom' = [dom EXCEPT !.container =
                               Mount(ClearContainer(@), PaymentElement(clientSecret))]
                /\ fetches' = [fetches EXCEPT ![i].state = "resolved",
                                              ![i].response = response.body,
                                              ![i].handed = [clientSecret |-> clientSecret]]
                /\ UNCHANGED timers
    /\ UNCHANGED <<stripe, currentMode, redirectStatus, confirms>>
    /\ UNCHANGED <<serverVars, pageVars>>

\* Faulty variant: an error body is mounted like a success.
FetchResolved_NoErrorCheck(i, response) ==
    /\ fetches[i].state = "pending"
    /\ LET clientSecret == Field(response.body, "clientSecret")
       IN  /\ elements' = [clientSecret |-> clientSecret]
           /\ dom' = [dom EXCEPT !.container =
                          Mount(ClearContainer(@), PaymentElement(clientSecret))]
           /\ fetches' = [fetches EXCEPT ![i].state = "resolved",
                                         ![i].response = response.body,
                                         ![i].handed = [clientSecret |-> clientSecret]]
           /\ UNCHANGED timers
    /\ UNCHANGED <<stripe, currentMode, redirectStatus, confirms>>
    /\ UNCHANGED <<serverVars, pageVars>>

\* loadPaymentElement from the resolved fetch on: the error is shown, or the
\* elements are made from the secret and the payment element is mounted in
\* the emptied container.
FetchResolved(i, response) ==
    /\ fetches[i].state = "pending"
    /\ LET clientSecret == Field(response.body, "clientSecret")
           error == Field(response.body, "error")
       IN  IF error # Undefined
           THEN /\ dom' = ShowMessage(dom, Text(error.message))
                /\ timers' = timers + 1
                /\ fetches' = [fetches EXCEPT ![i].state = "resolved",
                                              ![i].response = response.body]
                /\ UNCHANGED elements
           ELSE /\ elements' = [clientSecret |-> clientSecret]
                /\ dom' = [dom EXCEPT !.container =
                               Mount(ClearContainer(@), PaymentElement(clientSecret))]
                /\ fetches' = [fetches EXCEPT ![i].state = "resolved",
                                              ![i].response = response.body,
                                              ![i].handed = [clientSecret |-> clientSecret]]
                /\ UNCHANGED timers
    /\ UNCHANGED <<stripe, currentMode, redirectStatus, confirms>>
    /\ UNCHANGED <<serverVars, pageVars>>

\* Faulty variant: the catch also drops the elements and empties the container.
FetchRejected_Unmount(i, message) ==
    /\ fetches[i].state = "pending"
    /\ dom' = [ShowMessage(dom, Concat(Text("Network Error: "), Text(message)))
                  EXCEPT !.container = <<>>]
    /\ elements' = Undefined
    /\ timers' = timers + 1
    /\ fetches' = [fetches EXCEPT ![i].state = "rejected",
                                  ![i].response = [message |-> message]]
    /\ UNCHANGED <<stripe, currentMode, redirectStatus, confirms>>
    /\ UNCHANGED <<serverVars, pageVars>>

\* loadPaymentElement, the catch: fetch() or response.json() rejected.
FetchRejected(i, message) ==
    /\ fetches[i].state = "pending"
    /\ dom' = ShowMessage(dom, Concat(Text("Network Error: "), Text(message)))
    /\ timers' = timers + 1
    /\ fetches' = [fetches EXCEPT ![i].state = "rejected",
                                  ![i].response = [message |-> message]]
    /\ UNCHANGED <<stripe, elements, currentMode, redirectStatus, confirms>>
    /\ UNCHANGED <<serverVars, pageVars>>

\* The form is submitted: setLoading(true) and the confirm call of the mode.
Submit ==
    /\ Usable
    /\ ~dom.submitDisabled
    /\ Len(confirms) < MaxSubmits
    /\ dom' = SetLoading(dom, TRUE)
    /\ confirms' = Append(confirms,
                          [api |-> IF currentMode = "pay_now" THEN "confirmPayment"
                                                               ELSE "confirmSetup",
                           elements |-> elements, mode |-> currentMode,
                           state |-> "pending", result |-> Undefined])
    /\ UNCHANGED <<stripe, elements, currentMode, redirectStatus, fetches, timers>>
    /\ UNCHANGED <<serverVars, pageVars>>

\* The confirm call was given no elements: it throws, and the handler ends
\* there with the button still loading.
ConfirmThrew(c) ==
    /\ confirms[c].state = "pending"
    /\ confirms[c].elements = Undefined
    /\ confirms' = [confirms EXCEPT ![c].state = "threw"]
    /\ UNCHANGED <<stripe, elements, currentMode, dom, redirectStatus, fetches, timers>>
    /\ UNCHANGED <<serverVars, pageVars>>

\* The confirm call resolves with an error: it is shown, the button is freed.
ConfirmFailed(c, message) ==
    /\ confirms[c].state = "pending"
    /\ confirms[c].elements # Undefined
    /\ dom' = SetLoading(ShowMessage(dom, Text(message)), FALSE)
    /\ timers' = timers + 1
    /\ confirms' = [confirms EXCEPT ![c].state = "failed",
                                    ![c].result = [error |-> [message |-> message]]]
    /\ UNCHANGED <<stripe, elements, currentMode, redirectStatus, fetches>>
    /\ UNCHANGED <<serverVars, pageVars>>

\* The confirm call resolves without an error before the browser has left.
ConfirmSucceeded(c) ==
    /\ confirms[c].state = "pending"
    /\ confirms[c].elements # Undefined
    /\ dom' = SetLoading(ShowMessage(dom, Text("Success! Redirecting...")), FALSE)
    /\ timers' = timers + 1
    /\ confirms' = [confirms EXCEPT ![c].state = "succeeded"]
    /\ UNCHANGED <<stripe, elements, currentMode, redirectStatus, fetches>>
    /\ UNCHANGED <<serverVars, pageVars>>

\* The processor sends the browser to return_url: a fresh document of the
\* same page; what the old one still waited for is never delivered.
Redirect(c) ==
    /\ \/ confirms[c].state = "pending" /\ confirms[c].elements # Undefined
       \/ confirms[c].state = "succeeded"
    /\ redirectStatus' = Str("succeeded")
    /\ stripe' = Undefined
    /\ elements' = Undefined
    /\ currentMode' = "pay_now"
    /\ dom' = InitialDom
    /\ timers' = 0
    /\ fetches' = [i \in DOMAIN fetches |->
                      IF fetches[i].state = "pending"
                      THEN [fetches[i] EXCEPT !.state = "abandoned"] ELSE fetches[i]]
    /\ confirms' = [k \in DOMAIN confirms |->
                       IF k = c \/ confirms[k].state = "pending"
                       THEN [confirms[k] EXCEPT !.state = "redirected"] ELSE confirms[k]]
    /\ UNCHANGED <<serverVars, pageVars>>

\* Faulty variant: the timeout is dropped without touching the banner.
TimerFired_Dropped ==
    /\ timers > 0
    /\ timers' = timers - 1
    /\ UNCHANGED <<stripe, elements, currentMode, dom, redirectStatus, fetches, confirms>>
    /\ UNCHANGED <<serverVars, pageVars>>

\* A timeout of showMessage runs (all wait the same 4000 ms and do the same).
TimerFired ==
    /\ timers > 0
    /\ dom' = HideMessage(dom)
    /\ timers' = timers - 1
    /\ UNCHANGED <<stripe, elements, currentMode, redirectStatus, fetches, confirms>>
    /\ UNCHANGED <<serverVars, pageVars>>

ClientNext ==
    \/ Load
    \/ \E mode \in Modes : SelectMode(mode)
    \/ ToggleSaveCard
    \/ \E i \in DOMAIN fetches : \E response \in BrokerResponses(i) : FetchResolved(i, response)
    \/ \E i \in DOMAIN fetches, m \in FetchErrors : FetchRejected(i, m)
    \/ Submit
    \/ \E c \in DOMAIN confirms : ConfirmThrew(c)
    \/ \E c \in DOMAIN confirms, m \in ConfirmErrors : ConfirmFailed(c, m)
    \/ \E c \in DOMAIN confirms : ConfirmSucceeded(c)
    \/ \E c \in DOMAIN confirms : Redirect(c)
    \/ TimerFired

ClientSpec == Init /\ [][ClientNext]_vars

\* The browser's event loop runs every callback that is due: a timeout set
\* by showMessage does run.
FairClientSpec == ClientSpec /\ WF_vars(TimerFired)

----------------------------------------------------------------------------
(* The handlers serving the page, with a processor that always answers.    *)

\* The bodies the page posts to an endpoint.
PageBodies(endpoint) ==
    {LoadCall(mode, isChecked).body : <<mode, isChecked>> \in
        {mc \in Modes \X BOOLEAN : LoadCall(mc[1], mc[2]).endpoint = endpoint}}

\* The call to the processor that request r awaits returns or throws.
ProcessorAnswers(r) ==
    \/ CustomerCreated(r)
    \/ \E m \in CustomerMessages : CustomerFailed(r, m)
    \/ IntentCreated(r)
    \/ \E m \in Messages : IntentFailed(r, m)

FairNext ==
    \/ \E r \in Requests, e \in Endpoints : \E b \in PageBodies(e) : Receive(r, e, b)
    \/ \E r \in Requests : CustomerCreated(r)
    \/ \E r \in Requests, m \in CustomerMessages : CustomerFailed(r, m)
    \/ \E r \in Requests : IntentCreated(r)
    \/ \E r \in Requests, m \in Messages : IntentFailed(r, m)

\* Every call to the processor returns or throws in the end.
FairSpec == Init /\ [][FairNext]_vars /\ \A r \in Requests : WF_vars(ProcessorAnswers(r))

----------------------------------------------------------------------------
(* What the processor did for a request, read off the processor's own      *)
(* objects and the handler's log.                                          *)

PaymentEndpoint == "/create-payment-intent"
SetupEndpoint == "/create-setup-intent"
CustomerSetupEndpoint == "/create-customer-setup-intent"

\* The objects the processor created on the calls of request r.
CustomersOf(r) == {stripeCustomers[r][i] : i \in 1..Len(stripeCustomers[r])}
IntentsOf(r) == {stripeIntents[r][i] : i \in 1..Len(stripeIntents[r])}

\* All the customers the processor holds.
AllCustomers == {<<r, i>> \in Requests \X (1..2) : i <= Len(stripeCustomers[r])}

CallsTo(r, apis) == {i \in 1..Len(calls[r]) : calls[r][i].api \in apis}
IntentApis == {"paymentIntents.create", "setupIntents.create"}

IsPositiveInteger(v) == v.t = "number" /\ v.n > 0

Arrived(r) == pc[r] # "idle"
Succeeded(r) == pc[r] = "done" /\ thrown[r] = <<>>
Failed(r) == thrown[r] # <<>>
FailedAtCustomer(r) == Failed(r) /\ CustomersOf(r) = {}
FailedAtIntent(r) == Failed(r) /\ CustomersOf(r) # {}

----------------------------------------------------------------------------
\* C1: a /create-payment-intent request with a positive integer amount whose
\* two processor calls both succeed is answered once, with a success whose
\* clientSecret is the client_secret of the payment intent created for this
\* request and whose customerId is the id of the customer created for this
\* request, both non-empty strings.
C1_PayNowSuccess ==
    \A r \in Requests :
        (/\ req[r].endpoint = PaymentEndpoint
         /\ IsPositiveInteger(req[r].body.amount)
         /\ Succeeded(r))
        => /\ Len(responses[r]) = 1
           /\ responses[r][1].status = 200
           /\ {"clientSecret", "customerId"} \subseteq DOMAIN responses[r][1].body
           /\ \E c \in CustomersOf(r) : responses[r][1].body.customerId = c.id
           /\ \E i \in IntentsOf(r) :
                 /\ i.object = "payment_intent"
                 /\ responses[r][1].body.clientSecret = i.client_secret
           /\ NonEmptyString(responses[r][1].body.clientSecret)
           /\ NonEmptyString(responses[r][1].body.customerId)

C1_Witness ==
    \E r \in Requests :
        /\ req[r].endpoint = PaymentEndpoint
        /\ IsPositiveInteger(req[r].body.amount)
        /\ Succeeded(r)
        /\ Len(responses[r]) = 1

\* C2: the options of the payment-intent creation carry setup_future_usage =
\* 'off_session' exactly when the request's saveCard is true; with saveCard
\* absent or false the options have no setup_future_usage key at all.
C2_FutureUsageIffSaveCard ==
    \A r \in Requests : \A i \in CallsTo(r, {"paymentIntents.create"}) :
        IF req[r].body.saveCard = Bool(TRUE)
        THEN /\ "setup_future_usage" \in DOMAIN calls[r][i].args
             /\ calls[r][i].args.setup_future_usage = "off_session"
        ELSE "setup_future_usage" \notin DOMAIN calls[r][i].args

C2_Witness ==
    /\ \E r \in Requests :
          /\ req[r].body.saveCard = Bool(TRUE)
          /\ CallsTo(r, {"paymentIntents.create"}) # {}
    /\ \E r \in Requests :
          /\ req[r].body.saveCard \in {Undefined, Bool(FALSE)}
          /\ CallsTo(r, {"paymentIntents.create"}) # {}

\* C3: on each of the three endpoints, when either processor call throws the
\* request is answered with status 400 and the body {error: {message}} whose
\* message is the thrown error's message, and nothing else in the body.
C3_ErrorResponse ==
    \A r \in Requests :
        Failed(r) =>
            /\ Len(responses[r]) = 1
            /\ responses[r][1] =
                   [status |-> 400, body |-> [error |-> [message |-> thrown[r][1]]]]
            /\ DOMAIN responses[r][1].body = {"error"}

C3_Witness ==
    \E r1, r2 \in Requests :
        /\ FailedAtCustomer(r1) /\ FailedAtIntent(r2)
        /\ req[r1].endpoint # req[r2].endpoint
        /\ thrown[r1] # thrown[r2]
        /\ Len(responses[r1]) = 1 /\ Len(responses[r2]) = 1

----------------------------------------------------------------------------
(* A request's run with the processor's fresh ids read relative to the     *)
(* request: an id is "own" when the processor made it for this request.    *)

CustomerIds(r) == {c.id : c \in CustomersOf(r)}
IntentSecrets(r) == {i.client_secret : i \in IntentsOf(r)}

Relative(r, v) ==
    IF v \in CustomerIds(r) THEN "own customer"
    ELSE IF v \in IntentSecrets(r) THEN "own secret"
    ELSE "other"

\* The calls of r: the api and the arguments, the customer read relative to r.
CallShape(r) ==
    [i \in 1..Len(calls[r]) |->
        [api |-> calls[r][i].api,
         args |-> [k \in DOMAIN calls[r][i].args |->
                      IF k = "customer"
                      THEN Relative(r, calls[r][i].args[k])
                      ELSE calls[r][i].args[k]]]]

\* The responses of r: the status and the body, its ids read relative to r.
ResponseShape(r) ==
    [i \in 1..Len(responses[r]) |->
        [status |-> responses[r][i].status,
         body |-> [k \in DOMAIN responses[r][i].body |->
                      IF k = "error"
                      THEN responses[r][i].body[k].message
                      ELSE Relative(r, responses[r][i].body[k])]]]

\* What the processor has answered to r so far: how many calls it has
\* fulfilled and what it has thrown.
ProcessorBehaviour(r) ==
    [fulfilled |-> Cardinality(CustomersOf(r)) + Cardinality(IntentsOf(r)),
     thrown |-> thrown[r]]

\* C4: a /create-setup-intent request and a /create-customer-setup-intent
\* request that have met the same processor behaviour have issued the same
\* processor calls with the same arguments and have sent responses of the
\* same status and shape.
C4_SetupEndpointsEquivalent ==
    \A r1, r2 \in Requests :
        (/\ req[r1].endpoint = SetupEndpoint
         /\ req[r2].endpoint = CustomerSetupEndpoint
         /\ ProcessorBehaviour(r1) = ProcessorBehaviour(r2))
        => /\ CallShape(r1) = CallShape(r2)
           /\ ResponseShape(r1) = ResponseShape(r2)

C4_Witness ==
    \E r1, r2 \in Requests :
        /\ req[r1].endpoint = SetupEndpoint
        /\ req[r2].endpoint = CustomerSetupEndpoint
        /\ ProcessorBehaviour(r1) = ProcessorBehaviour(r2)
        /\ pc[r1] = "done" /\ pc[r2] = "done"
        /\ Len(calls[r1]) = 2 /\ Len(calls[r2]) = 2

\* C5: in every invocation the customer creation has completed before the
\* intent creation is called, the intent's customer is the id that customer
\* creation returned, and after a failed customer creation no intent
\* creation is called.
C5_CustomerBeforeIntent ==
    \A r \in Requests :
        /\ \A i \in CallsTo(r, IntentApis) :
              /\ \E j \in CallsTo(r, {"customers.create"}) : j < i
              /\ CustomersOf(r) # {}
              /\ calls[r][i].args.customer \in CustomerIds(r)
        /\ FailedAtCustomer(r) => CallsTo(r, IntentApis) = {}

C5_Witness ==
    /\ \E r \in Requests : CallsTo(r, IntentApis) # {} /\ CustomersOf(r) # {}
    /\ \E r \in Requests : FailedAtCustomer(r) /\ pc[r] = "done"

\* C6: within one request at most one customer creation and at most one
\* intent creation are called, and the first processor error ends the
\* request with the failure response, every call issued having been
\* answered (no call follows the error).
C6_NoRetry ==
    \A r \in Requests :
        /\ Cardinality(CallsTo(r, {"customers.create"})) <= 1
        /\ Cardinality(CallsTo(r, IntentApis)) <= 1
        /\ Failed(r) =>
              /\ Len(thrown[r]) = 1
              /\ pc[r] = "done"
              /\ Len(responses[r]) = 1
              /\ responses[r][1].status = 400
              /\ Len(calls[r]) = ProcessorBehaviour(r).fulfilled + 1

C6_Witness ==
    /\ \E r \in Requests : FailedAtCustomer(r) /\ Len(calls[r]) = 1
    /\ \E r \in Requests : FailedAtIntent(r) /\ Len(calls[r]) = 2

\* C7: when the customer creation succeeded and the intent creation failed,
\* the request is answered with the 400 error, the customer it created is
\* still at the processor and the request has called nothing but the two
\* creations; the processor holds one customer for every request whose
\* customer creation succeeded, failed requests included.
C7_OrphanedCustomer ==
    /\ \A r \in Requests :
          (Failed(r) /\ customer[r] # Undefined) =>
              /\ Len(responses[r]) = 1
              /\ responses[r][1].status = 400
              /\ "error" \in DOMAIN responses[r][1].body
              /\ customer[r] \in CustomersOf(r)
              /\ Len(calls[r]) = 2
              /\ \A i \in 1..Len(calls[r]) :
                    calls[r][i].api \in {"customers.create"} \cup IntentApis
    /\ Cardinality(AllCustomers) = Cardinality({r \in Requests : customer[r] # Undefined})

C7_Witness ==
    \E r \in Requests :
        /\ Failed(r) /\ customer[r] # Undefined /\ pc[r] = "done"
        /\ IntentsOf(r) = {}
        /\ customer[r] \in CustomersOf(r)

\* C8: /create-payment-intent does not validate amount: whatever the amount,
\* the handler calls customer creation and, once that has succeeded, calls
\* payment-intent creation with the amount unchanged; a 400 response is sent
\* only when the processor has thrown.
C8_AmountForwardedUnchecked ==
    \A r \in Requests :
        (req[r].endpoint = PaymentEndpoint /\ Arrived(r)) =>
            /\ Len(calls[r]) >= 1
            /\ calls[r][1].api = "customers.create"
            /\ CustomersOf(r) # {} =>
                  /\ Len(calls[r]) >= 2
                  /\ calls[r][2].api = "paymentIntents.create"
                  /\ calls[r][2].args.amount = req[r].body.amount
            /\ \A i \in 1..Len(responses[r]) :
                  responses[r][i].status = 400 => Failed(r)

C8_Witness ==
    \E r1, r2 \in Requests :
        /\ r1 # r2
        /\ req[r1].endpoint = PaymentEndpoint /\ req[r2].endpoint = PaymentEndpoint
        /\ req[r1].body.amount = Str("abc") /\ req[r2].body.amount = Undefined
        /\ Succeeded(r1)
        /\ FailedAtIntent(r2)

\* C9: the currency passed to payment-intent creation is the request's
\* currency when that is a non-empty string, and 'gbp' when the request's
\* currency is absent or empty.
C9_CurrencyDefault ==
    \A r \in Requests : \A i \in CallsTo(r, {"paymentIntents.create"}) :
        calls[r][i].args.currency =
            IF NonEmptyString(req[r].body.currency)
            THEN req[r].body.currency
            ELSE Str("gbp")

C9_Witness ==
    \E r1, r2 \in Requests :
        /\ CallsTo(r1, {"paymentIntents.create"}) # {}
        /\ CallsTo(r2, {"paymentIntents.create"}) # {}
        /\ req[r1].body.currency = Str("usd")
        /\ req[r2].body.currency \in {Undefined, Str("")}

\* C10: under every interleaving each request has its own customer, created
\* for it and for no other request; the intent created for it is bound to
\* that customer; and its success response carries that customer's id and
\* that intent's secret, never those of another request.
C10_RequestIsolation ==
    /\ \A r \in Requests :
          /\ customer[r] # Undefined => customer[r] \in CustomersOf(r)
          /\ Cardinality(CustomersOf(r)) <= 1
          /\ \A i \in IntentsOf(r) : i.params.customer \in CustomerIds(r)
          /\ Succeeded(r) =>
                /\ Len(responses[r]) = 1
                /\ responses[r][1].body.customerId \in CustomerIds(r)
                /\ responses[r][1].body.clientSecret \in IntentSecrets(r)
    /\ \A r, q \in Requests :
          r # q =>
              /\ CustomerIds(r) \cap CustomerIds(q) = {}
              /\ IntentSecrets(r) \cap IntentSecrets(q) = {}
              /\ \A i \in IntentsOf(r) : i.params.customer \notin CustomerIds(q)
              /\ Succeeded(r) =>
                    /\ responses[r][1].body.customerId \notin CustomerIds(q)
                    /\ responses[r][1].body.clientSecret \notin IntentSecrets(q)

\* Two requests in flight together: one is answered while the other, its
\* customer created, still awaits its intent.
C10_Witness ==
    \E r, q \in Requests :
        /\ r # q
        /\ Succeeded(r) /\ Len(responses[r]) = 1
        /\ pc[q] = "intent" /\ CustomersOf(q) # {}

\* C11: a request to /create-setup-intent or /create-customer-setup-intent,
\* whatever its body, calls customer creation and setup-intent creation at
\* most once each and nothing else: never payment-intent creation, never an
\* amount; the setup intent is bound to the request's customer with card as
\* its only payment method type, and a request that succeeds has made one
\* customer and one setup intent.
C11_SetupChargesNothing ==
    \A r \in Requests :
        req[r].endpoint \in {SetupEndpoint, CustomerSetupEndpoint} =>
            /\ CallsTo(r, {"paymentIntents.create"}) = {}
            /\ \A i \in 1..Len(calls[r]) :
                  calls[r][i].api \in {"customers.create", "setupIntents.create"}
            /\ \A i \in CallsTo(r, {"setupIntents.create"}) :
                  /\ DOMAIN calls[r][i].args = {"customer", "payment_method_types"}
                  /\ calls[r][i].args.customer \in CustomerIds(r)
                  /\ calls[r][i].args.payment_method_types = <<"card">>
            /\ \A i \in IntentsOf(r) :
                  i.object = "setup_intent" /\ "amount" \notin DOMAIN i.params
            /\ Succeeded(r) =>
                  /\ Cardinality(CustomersOf(r)) = 1
                  /\ Cardinality(IntentsOf(r)) = 1

C11_Witness ==
    \E r1, r2 \in Requests :
        /\ req[r1].endpoint = SetupEndpoint
        /\ req[r2].endpoint = CustomerSetupEndpoint
        /\ req[r1].body.amount = ValidAmount
        /\ req[r2].body.amount = ValidAmount
        /\ Succeeded(r1) /\ Succeeded(r2)
        /\ IntentsOf(r1) # {} /\ IntentsOf(r2) # {}

----------------------------------------------------------------------------
(* Where a value can be found in what the server process keeps and sends.  *)

Pieces(line) == {line[i] : i \in 1..Len(line)}
Logged == UNION {Pieces(consoleLog[i]) : i \in 1..Len(consoleLog)}
KeptInGlobals ==
    {globals.PORT} \cup {globals.stripe[k] : k \in DOMAIN globals.stripe}

\* The values a response body carries (the message, for an error body).
Sent(response) ==
    {IF k = "error" THEN Str(response.body[k].message) ELSE response.body[k] :
        k \in DOMAIN response.body}
SentTo(r) == UNION {Sent(responses[r][i]) : i \in 1..Len(responses[r])}

\* C12: the secret of an intent is in the success response of the request
\* that created it, as its clientSecret and unchanged, and nowhere else: not
\* in a response to another request, not in the server's log and not in the
\* module-level state that outlives the request.
C12_SecretOnlyForwarded ==
    \A r \in Requests : \A i \in IntentsOf(r) :
        /\ pc[r] = "done" =>
              /\ Len(responses[r]) = 1
              /\ responses[r][1].body.clientSecret = i.client_secret
        /\ \A q \in Requests \ {r} : i.client_secret \notin SentTo(q)
        /\ i.client_secret \notin Logged
        /\ i.client_secret \notin KeptInGlobals

C12_Witness ==
    /\ \A r \in Requests : Succeeded(r) /\ IntentsOf(r) # {}
    /\ Len(consoleLog) >= 1

\* C13: the success response of each of the three POST endpoints of the
\* connected-account server carries connectedAccountId, the configured
\* connected account, next to clientSecret and customerId.
C13_ConnectedAccountIdInResponse ==
    \A r \in Requests :
        Succeeded(r) =>
            /\ {"clientSecret", "customerId", "connectedAccountId"}
                   \subseteq DOMAIN responses[r][1].body
            /\ responses[r][1].body.connectedAccountId = Env.STRIPE_CONNECTED_ACCOUNT_ID

\* C14: the connected-account server answers GET /config with
\* {publishableKey, connectedAccountId}, both from the environment.
C14_ConfigRoute ==
    \A i \in 1..Len(pages) :
        pages[i].path = "/config" =>
            /\ pages[i].status = StatusOk
            /\ "body" \in DOMAIN pages[i]
            /\ pages[i].body = [publishableKey |-> Env.STRIPE_PUBLISHABLE_KEY,
                                connectedAccountId |-> Env.STRIPE_CONNECTED_ACCOUNT_ID]

----------------------------------------------------------------------------
(* What the claims about the checkout page speak of.                       *)

PayNow == "pay_now"
Reserve == "setup_future"
SaveCard == "save_card"

\* The fetches a kind of event has led to.
FetchesBy(trigger) == {i \in DOMAIN fetches : fetches[i].trigger = trigger}

\* C15: currentMode is one of PayNow, Reserve and SaveCard in every state of
\* the page, whatever modes were selected and however the save-card box was
\* toggled, and it is PayNow as long as the script has not run initialize().
C15_ModeIsOneOfThree ==
    /\ currentMode \in {PayNow, Reserve, SaveCard}
    /\ stripe = Undefined => currentMode = PayNow

C15_Witness ==
    /\ currentMode = SaveCard
    /\ FetchesBy("radio") # {}
    /\ stripe # Undefined

\* A step of the page that calls fetch(), and the call it makes.
IssuesFetch == Len(fetches') = Len(fetches) + 1
Issued == fetches'[Len(fetches')]

\* C16: the request the page sends is fixed by the selected mode: PayNow
\* posts {amount, currency: 'gbp', saveCard: the checkbox as it is now} to
\* /create-payment-intent, Reserve posts an empty body to /create-setup-intent,
\* SaveCard posts an empty body to /create-customer-setup-intent; the request
\* of the initial load is the PayNow one with saveCard false.
C16_RequestByMode ==
    [][IssuesFetch =>
          /\ dom'.radio = PayNow =>
                /\ Issued.endpoint = PaymentEndpoint
                /\ Issued.body = [amount |-> ValidAmount, currency |-> Str("gbp"),
                                  saveCard |-> Bool(dom'.checkbox)]
          /\ dom'.radio = Reserve =>
                /\ Issued.endpoint = SetupEndpoint
                /\ Issued.body = EmptyBody
          /\ dom'.radio = SaveCard =>
                /\ Issued.endpoint = CustomerSetupEndpoint
                /\ Issued.body = EmptyBody
          /\ stripe = Undefined =>
                /\ dom'.radio = PayNow
                /\ Issued.body.saveCard = Bool(FALSE)]_vars

C16_Witness ==
    \E i, j \in DOMAIN fetches :
        /\ fetches[i].trigger = "load" /\ fetches[i].endpoint = PaymentEndpoint
        /\ fetches[j].endpoint = SetupEndpoint /\ fetches[j].body = EmptyBody
        /\ dom.radio = Reserve

\* What became of the fetches of the page.
Answered(i) == fetches[i].state = "resolved"
AnsweredOk(i) == Answered(i) /\ "clientSecret" \in DOMAIN fetches[i].response
AnsweredError(i) == Answered(i) /\ "error" \in DOMAIN fetches[i].response
Rejected(i) == fetches[i].state = "rejected"

\* The steps that are transitions of the page: the initial load, the
\* selection of another mode, a toggle of the save-card checkbox.
LoadStep == stripe = Undefined /\ stripe' # Undefined
SelectStep == stripe # Undefined /\ stripe' # Undefined /\ dom'.radio # dom.radio
ToggleStep == stripe # Undefined /\ stripe' # Undefined /\ dom'.checkbox # dom.checkbox
TransitionStep == LoadStep \/ SelectStep \/ ToggleStep

\* The step in which the answer to the i-th fetch is dealt with.
HandledStep(i) == fetches[i].state = "pending" /\ fetches'[i].state \in {"resolved", "rejected"}

\* The widget shown for the elements made from a secret.
Widget(secret) == <<[type |-> "payment", clientSecret |-> secret]>>

\* C17 as stated: every transition, once its call to the broker is over, has
\* handed one fresh secret to the payment widget.
C17_EveryTransitionHandsSecret ==
    \A i \in DOMAIN fetches :
        (Answered(i) \/ Rejected(i)) =>
            /\ fetches[i].handed # Undefined
            /\ NonEmptyString(fetches[i].handed.clientSecret)

\* C17, amended: every transition of the page makes exactly one call to the
\* broker, and no other step makes one; when the call is answered with a
\* success, the secret of that answer, which no other call got, is handed to
\* the payment widget, once; when it is answered with an error or the fetch
\* fails, nothing is handed to the widget.
C17_OneCallOneSecretOnSuccess ==
    /\ [](\A i \in DOMAIN fetches :
            /\ AnsweredOk(i) =>
                  /\ fetches[i].handed = [clientSecret |-> fetches[i].response.clientSecret]
                  /\ NonEmptyString(fetches[i].response.clientSecret)
                  /\ \A j \in DOMAIN fetches \ {i} :
                        fetches[j].handed # fetches[i].handed
            /\ ~AnsweredOk(i) => fetches[i].handed = Undefined)
    /\ [][/\ TransitionStep <=> IssuesFetch
          /\ Len(fetches') \in {Len(fetches), Len(fetches) + 1}
          /\ IssuesFetch => Issued.state = "pending"
          /\ \A i \in DOMAIN fetches :
                /\ fetches'[i].handed # fetches[i].handed =>
                      /\ HandledStep(i)
                      /\ elements' = fetches'[i].handed
                      /\ dom'.container = Widget(fetches'[i].handed.clientSecret)
                /\ ~HandledStep(i) => fetches'[i].handed = fetches[i].handed]_vars

C17_Witness ==
    \E i, j \in DOMAIN fetches :
        /\ AnsweredOk(i) /\ fetches[i].trigger = "load"
        /\ AnsweredError(j) /\ fetches[j].trigger = "checkbox"
        /\ elements = fetches[i].handed

\* The fetch a selection of a mode led to has been dealt with, and it is
\* the last the page made: that transition is complete.
SelectionCompleted(j) ==
    /\ fetches[j].trigger = "radio"
    /\ Answered(j) \/ Rejected(j)
    /\ j = Len(fetches)

\* C18: once the selection of a different mode has been processed, the
\* widget mounted for the previous mode and its secret in elements are gone:
\* no completed transition leaves them in place.
C18_PreviousWidgetDiscarded ==
    \A j \in DOMAIN fetches :
        SelectionCompleted(j) =>
            \A i \in 1..(j - 1) :
                (fetches[i].handed # Undefined /\ fetches[i].mode # fetches[j].mode) =>
                    /\ elements # fetches[i].handed
                    /\ dom.container # Widget(fetches[i].handed.clientSecret)

\* C19: a toggle of the save-card checkbox while PayNow is selected makes one
\* new request to /create-payment-intent whose saveCard is the new value of
\* the checkbox; going for the checkbox while Reserve or SaveCard is selected
\* changes nothing: no request, the same mode, the same widget. The box is
\* shown exactly in PayNow.
C19_ToggleOnlyInPayNow ==
    /\ [](stripe # Undefined => (dom.saveCardHidden <=> currentMode # PayNow))
    /\ [][/\ ToggleStep =>
                /\ currentMode = PayNow /\ currentMode' = PayNow
                /\ IssuesFetch
                /\ Issued.endpoint = PaymentEndpoint
                /\ Issued.body.saveCard = Bool(dom'.checkbox)
                /\ dom'.checkbox = ~dom.checkbox
          /\ (ToggleSaveCard /\ currentMode # PayNow) =>
                /\ fetches' = fetches
                /\ currentMode' = currentMode
                /\ dom' = dom
                /\ elements' = elements]_vars

C19_Witness ==
    \E i \in DOMAIN fetches :
        /\ fetches[i].trigger = "checkbox"
        /\ fetches[i].body.saveCard = Bool(TRUE)
        /\ dom.checkbox
        /\ AnsweredOk(i)

\* The banner shows a text.
BannerShows(text) == ~dom.messageHidden /\ dom.messageText = text

\* The step ends with the banner showing a text.
BannerShown(text) == ~dom'.messageHidden /\ dom'.messageText = text

\* The step in which a confirm call comes back with an error.
ConfirmErrorStep(c) == confirms[c].state = "pending" /\ confirms'[c].state = "failed"

\* C20: when the broker's answer carries an error, when the fetch fails and
\* when a confirm call returns an error, the banner becomes visible with the
\* message of that error, after 'Network Error: ' for a failed fetch; and a
\* visible banner is hidden again later.
C20_ErrorShownThenHidden ==
    /\ [][/\ \A i \in DOMAIN fetches :
                HandledStep(i) =>
                    /\ "error" \in DOMAIN fetches'[i].response =>
                          BannerShown(<<fetches'[i].response.error.message>>)
                    /\ fetches'[i].state = "rejected" =>
                          BannerShown(<<"Network Error: ", fetches'[i].response.message>>)
          /\ \A c \in DOMAIN confirms :
                ConfirmErrorStep(c) =>
                    BannerShown(<<confirms'[c].result.error.message>>)]_vars
    /\ (~dom.messageHidden) ~> dom.messageHidden

C20_Witness ==
    /\ \E i \in DOMAIN fetches : Rejected(i)
    /\ \E c \in DOMAIN confirms : confirms[c].state = "failed"
    /\ BannerShows(<<"Your card was declined.">>)
    /\ timers = 2

\* The fetches of the page still waiting for their answer.
InFlight == {i \in DOMAIN fetches : fetches[i].state = "pending"}

\* C21: the page never has more than one request to the broker in flight: a
\* new request is made only when no earlier one still waits for its answer.
C21_OneRequestInFlight ==
    /\ [](Cardinality(InFlight) <= 1)
    /\ [][IssuesFetch => InFlight = {}]_vars

\* The fetch was answered with a success after a later one had been made.
Superseded(i) == AnsweredOk(i) /\ i < Len(fetches)

\* C22: nothing cancels or orders the requests in flight: a new transition
\* leaves every earlier request waiting as it was, any waiting request can be
\* answered next whatever else waits or was answered, and an answer that is
\* applied replaces the elements and the widget even when a later request was
\* answered before it, so that the widget of a superseded request stays.
C22_StaleResponseApplied ==
    /\ [](\A i \in InFlight : ENABLED FetchResolved(i, BrokerSuccess(i)))
    /\ [][/\ IssuesFetch => \A i \in DOMAIN fetches : fetches'[i] = fetches[i]
          /\ \A i \in DOMAIN fetches :
                (HandledStep(i) /\ "clientSecret" \in DOMAIN fetches'[i].response) =>
                    /\ elements' = [clientSecret |-> fetches'[i].response.clientSecret]
                    /\ dom'.container = Widget(fetches'[i].response.clientSecret)]_vars

C22_Witness ==
    \E i, j \in DOMAIN fetches :
        /\ i < j
        /\ Superseded(i) /\ AnsweredOk(j)
        /\ elements = fetches[i].handed
        /\ dom.container = Widget(fetches[i].handed.clientSecret)
        /\ currentMode = fetches[j].mode
        /\ fetches[i].mode # fetches[j].mode

\* The handler of r waits for a call to the processor.
Awaiting(r) == pc[r] \in {"customer", "intent"}

IsSuccessBody(body) == DOMAIN body = {"clientSecret", "customerId"}
IsErrorBody(body) == DOMAIN body = {"error"}

\* C23: a request to a POST endpoint gets exactly one response, the success
\* body or the 400 error body and never both; it is sent only in the step in
\* which a processor call returns or throws, the success only when both calls
\* have returned, so a request whose processor call has not returned has no
\* response; and when every processor call returns or throws in the end,
\* every request is answered in the end.
C23_ExactlyOneResponse ==
    /\ [](\A r \in Requests :
            /\ Len(responses[r]) <= 1
            /\ (pc[r] = "idle" \/ Awaiting(r)) => responses[r] = <<>>
            /\ pc[r] = "done" =>
                  /\ Len(responses[r]) = 1
                  /\ \/ /\ IsSuccessBody(responses[r][1].body)
                        /\ responses[r][1].status = StatusOk
                        /\ thrown[r] = <<>>
                        /\ Len(stripeCustomers[r]) = 1 /\ Len(stripeIntents[r]) = 1
                     \/ /\ IsErrorBody(responses[r][1].body)
                        /\ responses[r][1].status = StatusBadRequest
                        /\ Len(thrown[r]) = 1)
    /\ [][\A r \in Requests :
            responses'[r] # responses[r] =>
                /\ Awaiting(r)
                /\ thrown'[r] # thrown[r] \/ stripeIntents'[r] # stripeIntents[r]]_vars
    /\ \A r \in Requests : Arrived(r) ~> (Len(responses[r]) = 1)

C23_Witness ==
    \E r, q \in Requests :
        /\ pc[r] = "customer" /\ responses[r] = <<>>
        /\ pc[q] = "done" /\ Failed(q) /\ IsErrorBody(responses[q][1].body)

\* C24: the payment container holds at most one widget at any time, however
\* the broker's answers interleave: applying a success answer empties the
\* container and mounts the new widget in one step, so the container is never
\* seen emptied in between, and it ends as the new widget alone.
C24_OneWidgetMounted ==
    /\ [](Len(dom.container) <= 1)
    /\ [][/\ \A i \in DOMAIN fetches :
                (HandledStep(i) /\ fetches'[i].handed # Undefined) =>
                    dom'.container = <<PaymentElement(fetches'[i].handed.clientSecret)>>
          /\ (dom.container # <<>> /\ stripe' # Undefined) => Len(dom'.container) = 1]_vars

C24_Witness ==
    \E i, j \in DOMAIN fetches :
        /\ i < j
        /\ AnsweredOk(i) /\ AnsweredOk(j)
        /\ dom.container = <<PaymentElement(fetches[j].handed.clientSecret)>>
        /\ Len(dom.container) = 1

\* The kind of intent a client secret belongs to.
IntentKind(secret) ==
    IF secret.s = "pi_secret_" THEN "payment_intent"
    ELSE IF secret.s = "seti_secret_" THEN "setup_intent"
    ELSE "none"

\* The kind of intent a confirm call completes.
ConfirmKind(api) == IF api = "confirmPayment" THEN "payment_intent" ELSE "setup_intent"

\* C25: every confirm call the submit handler makes is given elements that
\* exist and were built from a secret of the kind the call completes:
\* confirmPayment a payment intent's, confirmSetup a setup intent's.
C25_ConfirmMatchesWidget ==
    \A c \in DOMAIN confirms :
        /\ confirms[c].elements # Undefined
        /\ IntentKind(confirms[c].elements.clientSecret) = ConfirmKind(confirms[c].api)

\* The step in which the answer to the i-th fetch is an error, or the fetch
\* has failed.
ErrorStep(i) ==
    /\ HandledStep(i)
    /\ fetches'[i].state = "rejected" \/ "error" \in DOMAIN fetches'[i].response

\* C26: when the broker's answer carries an error or the fetch fails,
\* loadPaymentElement leaves elements and the mounted widget as they were and
\* only shows a message, while currentMode, the button text and the
\* visibility of the save-card box are already those of the selected mode.
C26_ErrorLeavesWidget ==
    [][\A i \in DOMAIN fetches :
          ErrorStep(i) =>
              /\ elements' = elements
              /\ dom'.container = dom.container
              /\ ~dom'.messageHidden
              /\ dom' = [dom EXCEPT !.messageHidden = dom'.messageHidden,
                                    !.messageText = dom'.messageText]
              /\ currentMode' = currentMode
              /\ currentMode = dom.radio
              /\ currentMode = fetches[Len(fetches)].mode
              /\ dom.buttonText = ModeControls(dom, dom.radio).buttonText
              /\ dom.saveCardHidden = (dom.radio # PayNow)]_vars

C26_Witness ==
    /\ Len(fetches) = 2
    /\ AnsweredOk(1) /\ Rejected(2)
    /\ fetches[2].trigger = "radio"
    /\ elements = fetches[1].handed
    /\ dom.container = <<PaymentElement(fetches[1].handed.clientSecret)>>
    /\ currentMode = SaveCard /\ dom.saveCardHidden
    /\ dom.buttonText = "Save Card on File"

\* What became of the confirm calls of the page's submissions.
ConfirmPending(c) == confirms[c].state = "pending"
ConfirmSettled(c) == confirms[c].state \in {"succeeded", "failed", "threw"}

\* C27: the submit button is disabled while the confirm call of a submission
\* has not settled, and once it has settled, by returning a success, by
\* returning an error or by throwing, the button is enabled again and the
\* spinner is hidden.
C27_ButtonReenabled ==
    \A c \in DOMAIN confirms :
        /\ ConfirmPending(c) => dom.submitDisabled /\ ~dom.spinnerHidden
        /\ (ConfirmSettled(c) /\ \A k \in DOMAIN confirms : ~ConfirmPending(k)) =>
              ~dom.submitDisabled /\ dom.spinnerHidden

\* The step in which a timeout of showMessage runs. The timeouts run in the
\* order they were set, so with several waiting, the one that runs was set
\* for an earlier message than the one the banner shows.
TimerStep == timers' = timers - 1 /\ stripe' = stripe

\* C28: a message shown by showMessage stays until the timeout set by that
\* same call runs: the timeout of an earlier message never hides or clears a
\* message shown after it.
C28_OwnTimerHides ==
    [][(TimerStep /\ ~dom.messageHidden) => timers = 1]_vars

====
